---- MODULE Spec2Model ----
(***************************************************************************)
(* A model of bin/weewx/plotlygenerator.py: PlotlyJSONGenerator.gen_images *)
(* generating one plot, gen_plot's loop over the plot's lines, _gen_line,  *)
(* _gen_plotly and the module's helper functions.                          *)
(*                                                                         *)
(* Conventions.  Python's None is the empty tuple; a value that may be     *)
(* None is boxed, <<v>>, where it could otherwise be confused with None or *)
(* be of another type than None.  A sample value is a complex number       *)
(* <<real, imag>> (a Python float is a complex number with imag = 0: it    *)
(* has .real and .imag and cmath.polar accepts it).  A string on which the *)
(* code works character by character (a label) is a sequence of            *)
(* characters.  Timestamps are counted in half seconds, so that the        *)
(* midpoint of two whole-second timestamps is an integer.                  *)
(***************************************************************************)
EXTENDS Integers, Sequences, FiniteSets, TLC

\* Bounds of the model.
MaxLines == 2
MaxSamples == 2

None == <<>>

\* ------------------------------------------------------------------------
\* The environment of one gen_plot call.

\* The archive interval (two seconds), also the aggregate interval a line
\* may ask for.
Step == 4

\* scaletime's window: MaxSamples archive intervals.
minstamp == 0
maxstamp == minstamp + MaxSamples * Step
x_domain == <<minstamp, maxstamp>>

\* plotsize, from the TimePlot's image size and margins.
plot_w == 4
plot_h == 2

\* margin['l'] and margin['r'], in pixels as plotsize.
lmargin == 2
rmargin == 1

\* line_gap_fraction is a float; the model counts it in quarters.
GapDen == 4
GapFractions == {-1, 0, 1, GapDen, GapDen + 1}

\* What the data source holds for a sample.
Values == {None, <<1, 0>>, <<0, 1>>}

\* The *_font_family options of the plot.
FontKeys == {"top_label", "axis_label", "bottom_label", "unit_label", "rose_label"}
FontFamilies == {None, <<"sans">>, <<"serif">>}

\* ------------------------------------------------------------------------
\* Python built-ins.

\* str.lower on the strings of the model.
Lower(s) ==
    CASE s = "False" -> "false"
      [] s = "True" -> "true"
      [] s = "Vector" -> "vector"
      [] OTHER -> s

\* str.strip: leading and trailing whitespace removed.
RECURSIVE LStrip(_)
LStrip(s) == IF s # <<>> /\ Head(s) = " " THEN LStrip(Tail(s)) ELSE s

RECURSIVE RStrip(_)
RStrip(s) ==
    IF s # <<>> /\ s[Len(s)] = " " THEN RStrip(SubSeq(s, 1, Len(s) - 1)) ELSE s

Strip(s) == RStrip(LStrip(s))

SeqMin(s) == CHOOSE m \in {s[i] : i \in DOMAIN s} : \A i \in DOMAIN s : m <= s[i]
SeqMax(s) == CHOOSE m \in {s[i] : i \in DOMAIN s} : \A i \in DOMAIN s : m >= s[i]

\* ------------------------------------------------------------------------
\* The collaborators: the data source, the converter, the formatter.

\* What the data source answers for one observation type:
\*   aggregate: weewx.xtypes.get_aggregate(var_type, check_domain, 'not_null',
\*     db_manager), the exception it raises if any and else whether a
\*     non-null value exists;
\*   series: weewx.xtypes.get_series over x_domain, the exception it raises
\*     if any and else one record per archive interval of the window (with
\*     an aggregation of one interval, the same records).
Answer(agg_exc, agg_val, series_exc, vals) ==
    [aggregate |-> [exc |-> agg_exc, val |-> agg_val],
     series |-> [exc |-> series_exc,
                 start |-> [i \in 1..Len(vals) |-> minstamp + (i - 1) * Step],
                 stop  |-> [i \in 1..Len(vals) |-> minstamp + i * Step],
                 data  |-> vals]]

\* Converter.convert: a change of unit, value by value, None kept.
ConvertFactor == 2
Convert(vec) ==
    [i \in 1..Len(vec) |->
        IF vec[i] = None THEN None
        ELSE <<ConvertFactor * vec[i][1], ConvertFactor * vec[i][2]>>]

\* Formatter.get_label_string of the display unit.
UnitLabelString == <<" ", "u">>

\* ------------------------------------------------------------------------
\* Module-level helpers of plotlygenerator.py.

\* weeutil.weeutil.timespan_by_name: the named span that ends at time_ts or
\* holds it, here the archive interval before time_ts.
timespan_by_name(name, time_ts) == <<time_ts - Step, time_ts>>

_get_check_domain(skip_if_empty, domain) ==
    LET s == Lower(skip_if_empty)
    IN  IF s = "false" THEN None
        ELSE IF s = "true" THEN domain
        ELSE timespan_by_name(s, domain[2])

\* _skip_if_empty with an unknown aggregation taken as data.
UnknownAggregationKept(res, check_dom) ==
    IF check_dom = None THEN FALSE
    ELSE IF res.exc = "UnknownAggregation" THEN FALSE
    ELSE ~ res.val

_skip_if_empty(res, check_dom) ==
    IF check_dom = None THEN FALSE
    ELSE IF res.exc = "UnknownAggregation" THEN TRUE
    ELSE ~ res.val

\* _add_gaps with a gap also where the step equals maxdx.
AddGapsAtThreshold(x, y, maxdx) ==
    LET n == IF Len(x) < Len(y) THEN Len(x) ELSE Len(y)
        F[i \in 0..n] ==
            IF i = 0 THEN [gx |-> <<>>, gy |-> <<>>, x0 |-> None]
            ELSE LET p   == F[i - 1]
                     x1  == x[i]
                     y1  == y[i]
                     dx  == x1 - p.x0[1]
                     gap == p.x0 # None /\ y1 # None /\ dx >= maxdx
                 IN  [gx |-> IF gap THEN p.gx \o <<x1 - dx \div 2, x1>>
                                    ELSE Append(p.gx, x1),
                      gy |-> IF gap THEN p.gy \o <<None, y1>>
                                    ELSE Append(p.gy, y1),
                      x0 |-> IF y1 = None THEN None ELSE <<x1>>]
    IN  <<F[n].gx, F[n].gy>>

\* The state of _add_gaps' loop after its first i pairs of zip(x, y).
_add_gaps(x, y, maxdx) ==
    LET n == IF Len(x) < Len(y) THEN Len(x) ELSE Len(y)
        F[i \in 0..n] ==
            IF i = 0 THEN [gx |-> <<>>, gy |-> <<>>, x0 |-> None]
            ELSE LET p   == F[i - 1]
                     x1  == x[i]
                     y1  == y[i]
                     dx  == x1 - p.x0[1]
                     gap == p.x0 # None /\ y1 # None /\ dx > maxdx
                 IN  [gx |-> IF gap THEN p.gx \o <<x1 - dx \div 2, x1>>
                                    ELSE Append(p.gx, x1),
                      gy |-> IF gap THEN p.gy \o <<None, y1>>
                                    ELSE Append(p.gy, y1),
                      x0 |-> IF y1 = None THEN None ELSE <<x1>>]
    IN  <<F[n].gx, F[n].gy>>

_all_equal(iterable) ==
    \A i \in DOMAIN iterable : iterable[i] = iterable[1]

\* '%02x' % v for a byte v: two lowercase hexadecimal digits.
HexDigits ==
    <<"0", "1", "2", "3", "4", "5", "6", "7", "8", "9", "a", "b", "c", "d",
      "e", "f">>
Hex02(v) == <<HexDigits[(v \div 16) + 1], HexDigits[(v % 16) + 1]>>

\* _bgr_to_css with red taken from the high byte and blue from the low.
BgrAsRgb(bgr) ==
    <<"#">> \o Hex02((bgr \div 65536) % 256) \o Hex02((bgr \div 256) % 256)
            \o Hex02(bgr % 256)

\* _bgr_to_css: (bgr & 0xFF0000) >> 16 is the third byte of bgr, and so on.
_bgr_to_css(bgr) ==
    LET blue  == (bgr \div 65536) % 256
        green == (bgr \div 256) % 256
        red   == bgr % 256
    IN  <<"#">> \o Hex02(red) \o Hex02(green) \o Hex02(blue)

\* The local timezone of the process: local time minus UTC, in minutes.
VARIABLE utcoffset

\* The timezone of the plots of Spec and SpecLine, and the timezones
\* _time_to_iso is called in on its own: whole and broken hours on both
\* sides of UTC.
PlotOffset == 60
UtcOffsets == {-720, -570, -210, -180, -30, 0, 30, 60, 330, 345, 765, 840}

\* '%+03d' % v: the sign and the digits of v.
SignedDigits(v) ==
    [sign |-> IF v < 0 THEN "-" ELSE "+", digits |-> IF v < 0 THEN -v ELSE v]

\* _time_to_iso: local_dt.isoformat(), here the half seconds of local time
\* since the epoch, followed by '%+03d:%02d' % (offset_hr, offset_min) with
\* (offset_hr, offset_min) = divmod(offset_sec // 60, 60).  Python's // and
\* divmod floor, as \div and % do.
_time_to_iso(time_ts) ==
    LET offset_sec == utcoffset * 60
        offset_hr  == (offset_sec \div 60) \div 60
        offset_min == (offset_sec \div 60) % 60
    IN  [local |-> time_ts + 2 * offset_sec,
         sign |-> SignedDigits(offset_hr).sign,
         hh |-> SignedDigits(offset_hr).digits,
         mm |-> offset_min]

\* ------------------------------------------------------------------------
\* _gen_daynight (lines 832-886).

\* The rectangle of one segment: no outline, filled with the day colour or
\* the night colour.
DayNightRect(is_day, x0, x1, day_color, night_color) ==
    [type |-> "rect", layer |-> "below",
     fillcolor |-> IF is_day THEN day_color ELSE night_color,
     linewidth |-> <<0>>, linecolor |-> None,
     x0 |-> x0, x1 |-> x1]

\* The vertical line at one transition.
RiseSetLine(x, edge_color) ==
    [type |-> "line", layer |-> "below", fillcolor |-> None,
     linewidth |-> None, linecolor |-> edge_color,
     x0 |-> x, x1 |-> x]

\* _gen_daynight with the lines drawn whenever the edge colour is not the
\* day colour.
DayNightEdgeUnlessDay(plot, min, max, daynight) ==
    LET day_color   == _bgr_to_css(plot.daynight_day_color)
        night_color == _bgr_to_css(plot.daynight_night_color)
        edge_color  == _bgr_to_css(plot.daynight_edge_color)
        bounds == <<min>> \o daynight.transitions \o <<max>>
        transitions == [i \in DOMAIN bounds |-> _time_to_iso(bounds[i])]
        n == Len(transitions)
        is_day(i) == IF i % 2 = 1 THEN daynight.first = <<"day">>
                                  ELSE daynight.first # <<"day">>
        rects == [i \in 1..(n - 1) |->
                    DayNightRect(is_day(i), transitions[i], transitions[i + 1],
                                 day_color, night_color)]
    IN  IF edge_color # day_color
        THEN rects \o [i \in 1..(n - 2) |->
                          RiseSetLine(transitions[i + 1], edge_color)]
        ELSE rects

\* _gen_daynight, given the answer (first, transitions) of
\* getDayNightTransitions: the window's start is put before the transitions
\* and its end after them, every time is converted, is_days cycles through
\* (first == 'day', first != 'day'), one rectangle is made per pair of
\* neighbouring times, and the lines at transitions[1:-1] are added after
\* the rectangles when the converted edge colour is neither fill colour.
_gen_daynight(plot, min, max, daynight) ==
    LET day_color   == _bgr_to_css(plot.daynight_day_color)
        night_color == _bgr_to_css(plot.daynight_night_color)
        edge_color  == _bgr_to_css(plot.daynight_edge_color)
        bounds == <<min>> \o daynight.transitions \o <<max>>
        transitions == [i \in DOMAIN bounds |-> _time_to_iso(bounds[i])]
        n == Len(transitions)
        is_day(i) == IF i % 2 = 1 THEN daynight.first = <<"day">>
                                  ELSE daynight.first # <<"day">>
        rects == [i \in 1..(n - 1) |->
                    DayNightRect(is_day(i), transitions[i], transitions[i + 1],
                                 day_color, night_color)]
    IN  IF edge_color # day_color /\ edge_color # night_color
        THEN rects \o [i \in 1..(n - 2) |->
                          RiseSetLine(transitions[i + 1], edge_color)]
        ELSE rects

\* A local variable of gen_plot that no statement has assigned yet.
Unbound == <<"unbound">>

\* ------------------------------------------------------------------------
\* PlotlyJSONGenerator._gen_line.  A series is the dictionary the code
\* builds: name, type, x and y, whether it has a 'line' and a 'marker' key,
\* its 'showlegend' key (None: the key is absent), in ext the end of a
\* vector segment and in width the bar's 'width' key (a scalar, an array,
\* or absent).  stroke is the colour of its 'line' key or
\* else of its marker's 'line' key, linewidth that key's width and fill the
\* 'fillcolor' or the marker's colour (None: there is no such key).  vector
\* says that the series has the vector's hoverinfo.  The result is the
\* exception raised, if any, and the series returned.

\* The segments of a vector line, one per sample: from (x0, 0) to
\* (x0 + z0 * xypscale, y0); ext is the end's timestamp x0 + z0 * xypscale
\* as the fraction <<num, den>>.
VectorSegments(base, x, y, yrange) ==
    [i \in 1..Len(y) |->
        [base EXCEPT
            !.x = <<_time_to_iso(x[i])>>,
            !.y = <<0, y[i][2]>>,
            !.ext = <<x[i] * plot_w * yrange
                        + y[i][1] * (maxstamp - minstamp) * plot_h,
                      plot_w * yrange>>,
            !.showlegend = IF i = Len(y) THEN None ELSE <<FALSE>>]]

\* The hover text of a vector segment shows the sample in polar form,
\* cmath.polar(d) = (r, phi).  The model counts r in ten-thousandths and
\* angles in half degrees, phi from -359 to 360 (-179.5 to 180 degrees).
Epsilon == 10

\* The direction without the convention for North.
RawDirection(r, phi) == (2 * 90 - phi) % (2 * 360)

\* Lines 586-588: deg = (90 - math.degrees(phi)) % 360, and 360 for a
\* non-zero North wind.
VectorDirection(r, phi) ==
    LET deg == (2 * 90 - phi) % (2 * 360)
    IN  IF r > Epsilon /\ deg < 2 * 1 THEN 2 * 360 ELSE deg

\* Lines 589-591: '%d' % deg, the whole degrees of deg (deg is not
\* negative, and %d drops the fraction).
DirectionShown(r, phi) == VectorDirection(r, phi) \div 2

\* The bar's width whatever the widths: always the array.
BarWidthArray(bar_width) ==
    [kind |-> "array", ms |-> [i \in 1..Len(bar_width) |-> bar_width[i] * 1000]]

\* Lines 519-524: the 'width' key of a bar series, in milliseconds.
BarWidthMs(bar_width) ==
    IF bar_width # <<>> /\ _all_equal(bar_width)
    THEN [kind |-> "scalar", ms |-> <<bar_width[1] * 1000>>]
    ELSE [kind |-> "array",
          ms |-> [i \in 1..Len(bar_width) |-> bar_width[i] * 1000]]

_gen_line(x, y, label, color, fill_color, width, ptype, line_type, bar_width, gap_fraction, ys) ==
    LET gapped == IF gap_fraction # None /\ ptype # "vector"
                  THEN _add_gaps(x, y,
                           ((maxstamp - minstamp) * gap_fraction[1]) \div GapDen)
                  ELSE <<x, y>>
        line_data == [name |-> label, type |-> "", vector |-> FALSE,
                      x |-> [i \in 1..Len(gapped[1]) |->
                                _time_to_iso(gapped[1][i])],
                      y |-> gapped[2],
                      hasline |-> FALSE, hasmarker |-> FALSE,
                      showlegend |-> None, ext |-> None,
                      width |-> [kind |-> "absent", ms |-> <<>>],
                      stroke |-> None, fill |-> None, linewidth |-> None]
        imag == [i \in 1..Len(y) |-> y[i][2]]
        yrange == IF ys[1] # None /\ ys[2] # None
                  THEN ys[2][1] - ys[1][1]
                  ELSE SeqMax(imag) - SeqMin(imag)
    IN  CASE ptype = "line" ->
               [exc |-> "",
                lines |-> << [line_data EXCEPT
                    !.type = "scatter",
                    !.hasline = TRUE,
                    !.hasmarker = TRUE,
                    !.stroke = _bgr_to_css(color),
                    !.fill = _bgr_to_css(fill_color),
                    !.linewidth = <<width>>] >>]
          [] ptype = "bar" ->
               [exc |-> "",
                lines |-> << [line_data EXCEPT
                    !.type = "bar",
                    !.hasmarker = TRUE,
                    !.width = BarWidthMs(bar_width),
                    !.stroke = _bgr_to_css(color),
                    !.fill = _bgr_to_css(fill_color),
                    !.linewidth = <<width>>] >>]
          [] ptype = "vector" ->
               LET vec == [line_data EXCEPT
                              !.type = "scatter",
                              !.vector = TRUE,
                              !.hasline = (line_type # None),
                              !.stroke = IF line_type # None
                                         THEN _bgr_to_css(color) ELSE None,
                              !.linewidth = IF line_type # None
                                            THEN <<width>> ELSE None]
               IN  IF y = <<>> THEN [exc |-> "", lines |-> <<vec>>]
                   ELSE IF yrange = 0
                   THEN [exc |-> "ZeroDivisionError", lines |-> <<>>]
                   ELSE [exc |-> "",
                         lines |-> VectorSegments(vec, x, y, yrange)]
          [] OTHER -> [exc |-> "AssertionError", lines |-> <<>>]

\* ------------------------------------------------------------------------
\* PlotlyJSONGenerator._gen_plotly.

\* The title of a series takes its colour from the series' 'line' key or,
\* without one, from its 'marker' key.
TitleSeries(series) ==
    SelectSeq(series, LAMBDA s : s.showlegend = None)

TitlesRaise(series) ==
    \E i \in DOMAIN series :
        /\ series[i].showlegend = None
        /\ ~ series[i].hasline
        /\ ~ series[i].hasmarker

\* Lines 806-812: the x of the k-th of n titles, k = 1..n, as the fraction
\* <<num, den>>: paper_xmin + paper_xrange * k / (n + 1) with
\* paper_xmin = -lmargin / plot_w and paper_xmax = 1 + rmargin / plot_w.
TitleX(k, n) ==
    <<(plot_w + lmargin + rmargin) * k - lmargin * (n + 1), plot_w * (n + 1)>>

\* Lines 782-805: the titles of the series that the legend would show.
Titles(series) ==
    LET shown == TitleSeries(series)
    IN  [k \in 1..Len(shown) |->
            [kind |-> "title",
             text |-> shown[k].name,
             color |-> shown[k].stroke,
             x |-> TitleX(k, Len(shown))]]

\* An x-axis that has its range only if some series has a point.
XAxisOfData(series) ==
    [type |-> "date",
     range |-> IF \E i \in DOMAIN series : series[i].x # <<>>
               THEN <<_time_to_iso(minstamp), _time_to_iso(maxstamp)>>
               ELSE <<>>]

\* Lines 653-657: the x-axis of the layout.
XAxis(series) ==
    [type |-> "date",
     range |-> <<_time_to_iso(minstamp), _time_to_iso(maxstamp)>>]

\* font_families before None is removed from it.
FontFamiliesOf(plot_options, last_vector) ==
    {plot_options[k] : k \in {"top_label", "axis_label", "bottom_label", "unit_label"}}
    \cup (IF last_vector # None THEN {plot_options["rose_label"]} ELSE {})

RoseShapes == <<"shaft", "barb1", "barb2", "circle">>

_gen_plotly(series, plot_options, ys, y_label, last_vector) ==
    IF TitlesRaise(series) \/ None \notin FontFamiliesOf(plot_options, last_vector)
    THEN [exc |-> "KeyError", doc |-> None]
    ELSE [exc |-> "",
          doc |-> <<[data |-> series,
                     fonts |-> FontFamiliesOf(plot_options, last_vector) \ {None},
                     layout |->
                        [xaxis |-> XAxis(series),
                         yaxis |-> [title |-> y_label],
                         shapes |-> IF last_vector # None THEN RoseShapes
                                    ELSE <<>>,
                         annotations |->
                            (IF last_vector # None
                             THEN <<[kind |-> "rose_label"]>> ELSE <<>>)
                            \o Titles(series)]]>>]

\* ------------------------------------------------------------------------
\* The inputs of one gen_plot call: the plot's options, its line sections
\* (plot_dict, in declaration order) and the data source (db).

\* The options of a line section; None: the option is not given.
Section(dtype, agg_type, agg_interval, ptype, label, ltype, gap) ==
    [data_type |-> dtype,
     aggregate_type |-> agg_type,
     aggregate_interval |-> agg_interval,
     plot_type |-> ptype,
     y_label |-> label,
     line_type |-> ltype,
     line_gap_fraction |-> gap,
     color |-> None,
     fill_color |-> None,
     width |-> None]

PlotOptions == [skip_if_empty : {"False", "true", "True"},
                yscale : {<<None, None, None>>, <<<<0>>, <<8>>, None>>}]

YLabelA == <<<<" ", "a", " ">>>>
YLabelB == <<<<"b">>>>

\* An archive with five observation types: a scalar with a missing sample,
\* a wind vector, a type without any value, a type only an extension that
\* knows no 'not_null' aggregate serves, and (foo) no type at all.
Archive ==
    [outTemp |-> Answer("", TRUE, "",
                    [i \in 1..MaxSamples |-> IF i = 2 THEN None ELSE <<1, 0>>]),
     windvec |-> Answer("", TRUE, "",
                    [i \in 1..MaxSamples |-> <<i % 2, i>>]),
     rain    |-> Answer("", FALSE, "", [i \in 1..MaxSamples |-> None]),
     xt      |-> Answer("UnknownAggregation", FALSE, "",
                    [i \in 1..MaxSamples |-> <<1, 0>>]),
     foo     |-> Answer("UnknownType", FALSE, "UnknownType", <<>>)]

\* The line sections of the plots of Spec: a plain line, and what differs
\* from it in one or two options.
PlainSection == Section("outTemp", None, None, None, None, None, None)

PlotSections ==
    {PlainSection,
     [PlainSection EXCEPT !.y_label = YLabelA],
     [PlainSection EXCEPT !.data_type = "rain"],
     [PlainSection EXCEPT !.data_type = "foo"],
     [PlainSection EXCEPT !.data_type = "xt", !.y_label = YLabelB],
     [PlainSection EXCEPT !.aggregate_type = <<"avg">>,
                          !.aggregate_interval = <<Step>>],
     [PlainSection EXCEPT !.aggregate_type = <<"avg">>],
     [PlainSection EXCEPT !.plot_type = <<"bar">>],
     [PlainSection EXCEPT !.plot_type = <<"pie">>, !.y_label = YLabelB],
     [PlainSection EXCEPT !.plot_type = <<"vector">>],
     [PlainSection EXCEPT !.plot_type = <<"vector">>, !.data_type = "windvec"],
     [PlainSection EXCEPT !.plot_type = <<"Vector">>, !.data_type = "windvec"],
     [PlainSection EXCEPT !.plot_type = <<"vector">>, !.data_type = "windvec",
                          !.line_type = <<"none">>],
     [PlainSection EXCEPT !.plot_type = <<"vector">>, !.data_type = "rain"],
     [PlainSection EXCEPT !.line_gap_fraction = <<1>>]}

PlotDicts == UNION {[1..n -> PlotSections] : n \in 0..MaxLines}

\* ------------------------------------------------------------------------
\* The state: the inputs, gen_images' and gen_plot's local variables, where
\* control is (pc), the exception that left gen_plot (error) and, for each
\* line met so far, how far the loop body got with it (outcome).  call and
\* result are the arguments and the result of a helper function called on
\* its own (None in a gen_plot call).

VARIABLES plot_options, plot_dict, db, call, result,
          pc, error, check_domain, yscale, line_num, line_options, var_type,
          skip, have_data, aggregate_type, aggregate_interval, plot_type,
          start_vec_t, stop_vec_t, data_vec_t, new_data_vec_t, unit_label,
          last_vector_options, last_vector_line_num, data, plotly_data,
          ngen, img_file, outcome

vars == <<plot_options, plot_dict, db, utcoffset, call, result,
          pc, error, check_domain, yscale, line_num, line_options, var_type,
          skip, have_data, aggregate_type, aggregate_interval, plot_type,
          start_vec_t, stop_vec_t, data_vec_t, new_data_vec_t, unit_label,
          last_vector_options, last_vector_line_num, data, plotly_data,
          ngen, img_file, outcome>>

inputs == <<plot_options, plot_dict, db, utcoffset, call, result,
            check_domain, yscale>>
linevars == <<line_options, var_type, aggregate_type, aggregate_interval,
              plot_type>>
vecvars == <<start_vec_t, stop_vec_t, data_vec_t, new_data_vec_t>>
outvars == <<unit_label, last_vector_options, last_vector_line_num, data>>
filevars == <<plotly_data, ngen, img_file>>

\* What a helper function called on its own leaves alone.
envvars == <<plot_options, plot_dict, db, utcoffset, call>>
locals == <<check_domain, yscale, error, line_num, skip, have_data, linevars,
            vecvars, outvars, filevars, outcome>>

\* gen_images has reached its call of gen_plot, and gen_plot (lines 172-230)
\* its loop over the lines.
GenPlotEntry ==
    /\ error = ""
    /\ check_domain = _get_check_domain(plot_options.skip_if_empty, x_domain)
    /\ yscale = plot_options.yscale
    /\ line_num = -1
    /\ line_options = Unbound
    /\ var_type = Unbound
    /\ skip = Unbound
    /\ have_data = FALSE
    /\ aggregate_type = Unbound
    /\ aggregate_interval = Unbound
    /\ plot_type = Unbound
    /\ start_vec_t = Unbound
    /\ stop_vec_t = Unbound
    /\ data_vec_t = Unbound
    /\ new_data_vec_t = Unbound
    /\ unit_label = None
    /\ last_vector_options = None
    /\ last_vector_line_num = 0
    /\ data = <<>>
    /\ plotly_data = Unbound
    /\ ngen = 0
    /\ img_file = None
    /\ outcome = <<>>

Init ==
    /\ plot_options \in PlotOptions
    /\ plot_dict \in PlotDicts
    /\ db = Archive
    /\ utcoffset = PlotOffset
    /\ call = None
    /\ result = None
    /\ pc = "loop"
    /\ GenPlotEntry

Raise(exc) == pc' = "raised" /\ error' = exc

\* The outcome of the current line becomes o.
Outcome(o) == outcome' = [outcome EXCEPT ![line_num + 1] = o]

\* have_data set for every line, skipped or not.
HaveDataEveryLine(have, skipped) == TRUE

\* Lines 249-253: have_data after the empty check of a line.
HaveData(have, skipped) == IF skipped THEN have ELSE TRUE

\* Lines 231-253: the next line of the plot and its empty check.
NextLine ==
    /\ pc = "loop"
    /\ line_num + 1 < Len(plot_dict)
    /\ line_num' = line_num + 1
    /\ line_options' = plot_dict[line_num + 2]
    /\ var_type' = plot_dict[line_num + 2].data_type
    /\ LET res == db[var_type'].aggregate
       IN  IF check_domain # None /\ res.exc = "UnknownType"
           THEN /\ Raise("UnknownType")
                /\ outcome' = Append(outcome, "check_failed")
                /\ UNCHANGED <<skip, have_data>>
           ELSE /\ skip' = <<_skip_if_empty(res, check_domain)>>
                /\ UNCHANGED error
                /\ have_data' = HaveData(have_data, skip'[1])
                /\ IF skip'[1]
                   THEN /\ pc' = "loop"
                        /\ outcome' = Append(outcome, "empty")
                   ELSE /\ pc' = "aggregate"
                        /\ outcome' = Append(outcome, "checked")
    /\ UNCHANGED <<inputs, aggregate_type, aggregate_interval, plot_type,
                   vecvars, outvars, filevars>>

\* Lines 255-269: the aggregation of the line.
Aggregate ==
    /\ pc = "aggregate"
    /\ IF line_options.aggregate_type \in {None, <<"">>, <<"None">>, <<"none">>}
       THEN /\ aggregate_type' = None
            /\ aggregate_interval' = None
            /\ pc' = "fetch"
            /\ UNCHANGED outcome
       ELSE IF line_options.aggregate_interval = None
       THEN /\ aggregate_type' = line_options.aggregate_type
            /\ UNCHANGED aggregate_interval
            /\ pc' = "loop"
            /\ Outcome("no_interval")
       ELSE /\ aggregate_type' = line_options.aggregate_type
            /\ aggregate_interval' = line_options.aggregate_interval
            /\ pc' = "fetch"
            /\ UNCHANGED outcome
    /\ UNCHANGED <<inputs, error, line_num, line_options, var_type, skip,
                   have_data, plot_type, vecvars, outvars, filevars>>

\* The UnknownType of get_series passed whatever the empty check said.
SwallowAlways(skipped) == TRUE

\* Line 291: whether gen_plot lets the UnknownType of get_series pass.
SwallowUnknownType(skipped) == skipped

\* Lines 271-295: the series of the line, then its plot type.
Fetch ==
    /\ pc = "fetch"
    /\ LET r == db[var_type].series
           ptype == Lower(IF line_options.plot_type = None THEN "line"
                          ELSE line_options.plot_type[1])
       IN  IF r.exc = ""
           THEN /\ start_vec_t' = r.start
                /\ stop_vec_t' = r.stop
                /\ data_vec_t' = r.data
                /\ plot_type' = ptype
                /\ pc' = "shift"
                /\ Outcome("fetched")
                /\ UNCHANGED error
           ELSE /\ Outcome("unknown_type")
                /\ UNCHANGED <<start_vec_t, stop_vec_t, data_vec_t>>
                /\ IF ~ SwallowUnknownType(skip[1])
                   THEN Raise(r.exc) /\ UNCHANGED plot_type
                   ELSE /\ plot_type' = ptype
                        /\ IF data_vec_t = Unbound
                           THEN Raise("UnboundLocalError")
                           ELSE pc' = "shift" /\ UNCHANGED error
    /\ UNCHANGED <<inputs, line_num, line_options, var_type, skip, have_data,
                   aggregate_type, aggregate_interval, new_data_vec_t,
                   outvars, filevars>>

\* Lines 297-306: an aggregated point goes to the middle of its interval.
MidpointShift(vec, ptype, agg_type, agg_interval) ==
    IF agg_type # None /\ ptype # "bar"
    THEN [i \in 1..Len(vec) |-> vec[i] - agg_interval[1] \div 2]
    ELSE vec

Shift ==
    /\ pc = "shift"
    /\ start_vec_t' = MidpointShift(start_vec_t, plot_type, aggregate_type,
                                    aggregate_interval)
    /\ stop_vec_t' = MidpointShift(stop_vec_t, plot_type, aggregate_type,
                                   aggregate_interval)
    /\ pc' = "convert"
    /\ UNCHANGED <<inputs, error, line_num, skip, have_data, linevars,
                   data_vec_t, new_data_vec_t, outvars, filevars, outcome>>

\* The unit label with its surrounding whitespace kept.
UnitLabelUnstripped(options) ==
    IF options.y_label = None THEN UnitLabelString ELSE options.y_label[1]

\* Lines 311-316: the unit label a line resolves.
UnitLabel(options) ==
    Strip(IF options.y_label = None THEN UnitLabelString
          ELSE options.y_label[1])

\* Lines 308-316: the display unit's values and the unit label.
ConvertUnits ==
    /\ pc = "convert"
    /\ new_data_vec_t' = Convert(data_vec_t)
    /\ unit_label' = <<UnitLabel(line_options)>>
    /\ pc' = "strip"
    /\ UNCHANGED <<inputs, error, line_num, skip, have_data, linevars,
                   start_vec_t, stop_vec_t, data_vec_t, last_vector_options,
                   last_vector_line_num, data, filevars, outcome>>

\* A vector left as it is where the values have a None.
KeepAll(vec, new_data_values) == vec

\* [v for i, v in enumerate(vec) if new_data_values[i] is not None]
KeepNonNull(vec, new_data_values) ==
    LET F[i \in 0..Len(vec)] ==
            IF i = 0 THEN <<>>
            ELSE IF new_data_values[i] # None THEN Append(F[i - 1], vec[i])
            ELSE F[i - 1]
    IN  F[Len(vec)]

\* Lines 318-340: the samples without a value leave the three vectors.
StripNulls ==
    /\ pc = "strip"
    /\ IF \E i \in DOMAIN new_data_vec_t : new_data_vec_t[i] = None
       THEN /\ start_vec_t' = KeepNonNull(start_vec_t, new_data_vec_t)
            /\ stop_vec_t' = KeepNonNull(stop_vec_t, new_data_vec_t)
            /\ new_data_vec_t' = SelectSeq(new_data_vec_t, LAMBDA v : v # None)
       ELSE UNCHANGED <<start_vec_t, stop_vec_t, new_data_vec_t>>
    /\ pc' = "shape"
    /\ UNCHANGED <<inputs, error, line_num, skip, have_data, linevars,
                   data_vec_t, outvars, filevars, outcome>>

\* The gap fraction passed on without its range check.
GapFractionUnchecked(opt) == opt

\* Lines 386-391: the gap fraction _gen_line is given for option opt.
GapFraction(opt) ==
    IF opt # None /\ ~ (0 < opt[1] /\ opt[1] < GapDen) THEN None ELSE opt

\* Lines 396-399: the line type _gen_line is given for option opt.
LineType(opt) ==
    LET line_type == IF opt = None THEN "solid" ELSE opt[1]
    IN  IF Lower(line_type) \in {"", "none"} THEN None ELSE <<line_type>>

\* The theme of the plot (weeplot.genplot.TimePlot): the colours and the
\* widths that the lines without their own take in turn.
chart_line_colors == <<255, 65280>>
chart_fill_colors == <<16711680, 65535, 16711935>>
chart_line_widths == <<1, 2>>

\* weeplot.utilities.tobgr on the colours of the model.
tobgr(x) ==
    CASE x = "red" -> 255
      [] x = "blue" -> 16711680
      [] x = "0x123456" -> 1193046

\* weeutil.weeutil.to_int on the widths of the model.
to_int(x) ==
    CASE x = None -> None
      [] x = <<"0">> -> <<0>>
      [] x = <<"3">> -> <<3>>

\* The theme's last entry for every line past the list's end.
ThemeEntryNoWrap(list, num) ==
    list[(IF num < Len(list) THEN num ELSE Len(list) - 1) + 1]

\* list[line_num % len(list)]
ThemeEntry(list, num) == list[(num % Len(list)) + 1]

\* Lines 353-372: the colour, the fill colour and the width of a line.
LineColor(options, num) ==
    IF options.color # None THEN tobgr(options.color[1])
    ELSE ThemeEntry(chart_line_colors, num)

FillColor(options, num) ==
    IF options.fill_color # None THEN tobgr(options.fill_color[1])
    ELSE ThemeEntry(chart_fill_colors, num)

LineWidth(options, num) ==
    IF to_int(options.width) # None THEN to_int(options.width)[1]
    ELSE ThemeEntry(chart_line_widths, num)

\* The theme's rose colour (plot.rose_color): not configured, or a colour.
RoseColours == {None, <<65535>>}

\* _gen_plotly, lines 731-738: the colour of the compass rose, given the
\* recorded vector line and its index.
RoseColor(rose_color, last_vector, last_vector_num) ==
    IF rose_color # None THEN rose_color[1]
    ELSE IF last_vector[1].color # None THEN tobgr(last_vector[1].color[1])
    ELSE chart_line_colors[(last_vector_num % Len(chart_line_colors)) + 1]

\* No plot type rejected.
AnyPlotType(ptype) == TRUE

\* Lines 378-394: whether the plot type is one gen_plot shapes.
KnownPlotType(ptype) == ptype \in {"vector", "bar", "line"}

\* Line 425: whether the line is recorded as the last vector line.
IsLastVector(options) == options.plot_type = <<"vector">>

\* The series of a line put before those of the lines declared earlier.
ExtendFront(series, lines) == lines \o series

\* Line 404, data.extend(...): the series of a line are added at the end.
Extend(series, lines) == series \o lines

\* Lines 342-427: the line's label and style, its shaping by plot type, its
\* series and the last vector line.
Shape ==
    /\ pc = "shape"
    /\ IF ~ KnownPlotType(plot_type)
       THEN /\ pc' = "loop"
            /\ Outcome("unknown_kind")
            /\ UNCHANGED <<error, data, last_vector_options,
                           last_vector_line_num>>
       ELSE LET interval_vec ==
                    IF plot_type = "bar"
                    THEN [i \in 1..Len(start_vec_t) |->
                             stop_vec_t[i] - start_vec_t[i]]
                    ELSE None
                gap_fraction ==
                    IF plot_type = "line"
                    THEN GapFraction(line_options.line_gap_fraction)
                    ELSE None
                res == _gen_line(stop_vec_t, new_data_vec_t, var_type,
                                 LineColor(line_options, line_num),
                                 FillColor(line_options, line_num),
                                 LineWidth(line_options, line_num),
                                 plot_type, LineType(line_options.line_type),
                                 interval_vec, gap_fraction, yscale)
            IN  IF res.exc # ""
                THEN /\ Raise(res.exc)
                     /\ Outcome("failed")
                     /\ UNCHANGED <<data, last_vector_options,
                                    last_vector_line_num>>
                ELSE /\ data' = Extend(data, res.lines)
                     /\ pc' = "loop"
                     /\ Outcome("emitted")
                     /\ UNCHANGED error
                     /\ IF IsLastVector(line_options)
                        THEN /\ last_vector_line_num' = line_num
                             /\ last_vector_options' = <<line_options>>
                        ELSE UNCHANGED <<last_vector_options,
                                         last_vector_line_num>>
    /\ UNCHANGED <<inputs, line_num, skip, have_data, linevars, vecvars,
                   unit_label, filevars>>

\* Lines 429-446: after the last line, the document; gen_plot returns it if
\* the plot has data.
Layout ==
    /\ pc = "loop"
    /\ line_num + 1 = Len(plot_dict)
    /\ \E fonts \in [FontKeys -> FontFamilies] :
         LET res == _gen_plotly(data, fonts, yscale, unit_label,
                                last_vector_options)
         IN  IF res.exc # ""
             THEN Raise(res.exc) /\ UNCHANGED plotly_data
             ELSE /\ plotly_data' = IF have_data THEN res.doc ELSE None
                  /\ pc' = "returned"
                  /\ UNCHANGED error
    /\ UNCHANGED <<inputs, line_num, skip, have_data, linevars, vecvars,
                   outvars, ngen, img_file, outcome>>

\* gen_images, lines 128-146: the document is written to the plot's file,
\* unless the file cannot be written.
WriteFile ==
    /\ pc = "returned"
    /\ IF plotly_data # None
       THEN \/ img_file' = plotly_data /\ ngen' = ngen + 1
            \/ UNCHANGED <<img_file, ngen>>
       ELSE UNCHANGED <<img_file, ngen>>
    /\ pc' = "done"
    /\ UNCHANGED <<inputs, error, line_num, skip, have_data, linevars,
                   vecvars, outvars, plotly_data, outcome>>

Next ==
    \/ NextLine
    \/ Aggregate
    \/ Fetch
    \/ Shift
    \/ ConvertUnits
    \/ StripNulls
    \/ Shape
    \/ Layout
    \/ WriteFile

Spec == Init /\ [][Next]_vars

\* ------------------------------------------------------------------------
\* SpecLine: plots of one line, with every combination of the line's
\* options and every content of the window.

LinePlotOptions == [skip_if_empty : {"False", "true"},
                    yscale : {<<None, None, None>>, <<<<0>>, <<8>>, None>>}]

PlotTypeOptions ==
    {None, <<"line">>, <<"bar">>, <<"vector">>, <<"Vector">>, <<"pie">>}

\* line_gap_fraction is read for a line plot only, line_type decides a key
\* of a vector's series only: elsewhere they are left out.
LineSections ==
    {sec \in
        {Section("obs", agg[1], agg[2], pt, yl, lt, gf) :
            agg \in {<<None, None>>, <<<<"avg">>, <<Step>>>>,
                     <<<<"avg">>, None>>, <<<<"none">>, <<Step>>>>},
            pt \in PlotTypeOptions,
            yl \in {None, YLabelA},
            lt \in {None, <<"none">>},
            gf \in {None} \cup {<<g>> : g \in GapFractions}} :
        /\ sec.line_gap_fraction # None
              => sec.plot_type \in {None, <<"line">>}
        /\ sec.line_type # None
              => sec.plot_type \in {<<"vector">>, <<"Vector">>}}

LineArchives ==
    {[obs |-> Answer("", agg_val, "", vals)] :
        agg_val \in BOOLEAN,
        vals \in UNION {[1..n -> Values] : n \in 0..MaxSamples}}
    \cup {[obs |-> Answer("", TRUE, "UnknownType", <<>>)]}

InitLine ==
    /\ plot_options \in LinePlotOptions
    /\ plot_dict \in {<<sec>> : sec \in LineSections}
    /\ db \in LineArchives
    /\ utcoffset = PlotOffset
    /\ call = None
    /\ result = None
    /\ pc = "loop"
    /\ GenPlotEntry

SpecLine == InitLine /\ [][Next]_vars

\* ------------------------------------------------------------------------
\* SpecGaps: _add_gaps called on its own.

MaxGapLen == 4

\* Whole seconds, and thresholds between and at their differences.
GapTimes == {0, 2, 20, 22}
GapThresholds == {0, 4, 18}
GapValues == {None, <<1, 0>>}

InitGaps ==
    /\ plot_options \in {po \in PlotOptions :
                            po.skip_if_empty = "False" /\ po.yscale[1] = None}
    /\ plot_dict = <<>>
    /\ db = Archive
    /\ utcoffset = PlotOffset
    /\ \E n \in 0..MaxGapLen :
         call \in [fn : {"_add_gaps"}, x : [1..n -> GapTimes],
                   y : [1..n -> GapValues], maxdx : GapThresholds]
    /\ result = None
    /\ pc = "call"
    /\ GenPlotEntry

AddGaps ==
    /\ pc = "call"
    /\ call.fn = "_add_gaps"
    /\ result' = _add_gaps(call.x, call.y, call.maxdx)
    /\ pc' = "called"
    /\ UNCHANGED <<envvars, locals>>

NextGaps == AddGaps

SpecGaps == InitGaps /\ [][NextGaps]_vars

\* ------------------------------------------------------------------------
\* SpecColours: plots of up to MaxLines + 1 lines that differ in their
\* colour, fill colour and width options, one of them of a type without any
\* value; the theme's lists are shorter than the plot.

ColourSections ==
    {PlainSection,
     [PlainSection EXCEPT !.color = <<"red">>],
     [PlainSection EXCEPT !.data_type = "rain"],
     [PlainSection EXCEPT !.fill_color = <<"blue">>, !.width = <<"3">>],
     [PlainSection EXCEPT !.plot_type = <<"bar">>, !.color = <<"0x123456">>,
                          !.width = <<"0">>]}

InitColours ==
    /\ plot_options \in {po \in PlotOptions :
                            po.skip_if_empty # "True" /\ po.yscale[1] = None}
    /\ plot_dict \in UNION {[1..n -> ColourSections] : n \in 0..(MaxLines + 1)}
    /\ db = Archive
    /\ utcoffset = PlotOffset
    /\ call = None
    /\ result = None
    /\ pc = "loop"
    /\ GenPlotEntry

SpecColours == InitColours /\ [][Next]_vars

\* A helper function is about to be called on its own: no plot, and
\* gen_plot's variables as at its entry.
CallEntry ==
    /\ plot_options = [skip_if_empty |-> "False", yscale |-> <<None, None, None>>]
    /\ plot_dict = <<>>
    /\ db = Archive
    /\ result = None
    /\ pc = "call"
    /\ GenPlotEntry

\* ------------------------------------------------------------------------
\* SpecIso: _time_to_iso called on its own, in every timezone of UtcOffsets.

\* Timestamps in half seconds: whole and half seconds, around a day's end.
IsoTimes == {0, 1, 2, 7200, 172798, 172799, 172800, 172801}

InitIso ==
    /\ utcoffset \in UtcOffsets
    /\ call \in [fn : {"_time_to_iso"}, time_ts : IsoTimes]
    /\ CallEntry

TimeToIso ==
    /\ pc = "call"
    /\ call.fn = "_time_to_iso"
    /\ result' = _time_to_iso(call.time_ts)
    /\ pc' = "called"
    /\ UNCHANGED <<envvars, locals>>

NextIso == TimeToIso

SpecIso == InitIso /\ [][NextIso]_vars

\* ------------------------------------------------------------------------
\* SpecBgr: _bgr_to_css called on its own.

\* Bytes with one and two digits, with digits and letters.
ColourBytes == {0, 1, 9, 10, 15, 16, 160, 255}
BgrColours ==
    {r + 256 * g + 65536 * b : r \in ColourBytes, g \in ColourBytes,
                                b \in ColourBytes}

InitBgr ==
    /\ utcoffset = PlotOffset
    /\ call \in [fn : {"_bgr_to_css"}, bgr : BgrColours]
    /\ CallEntry

BgrToCss ==
    /\ pc = "call"
    /\ call.fn = "_bgr_to_css"
    /\ result' = _bgr_to_css(call.bgr)
    /\ pc' = "called"
    /\ UNCHANGED <<envvars, locals>>

NextBgr == BgrToCss

SpecBgr == InitBgr /\ [][NextBgr]_vars

\* ------------------------------------------------------------------------
\* SpecBar: _gen_line called on its own for a bar line.

MaxBars == 4

\* Widths of 60 and 61 seconds, and of none.
BarWidths == {0, 120, 122}

InitBar ==
    /\ utcoffset = PlotOffset
    /\ \E n \in 0..MaxBars :
         call \in [fn : {"_gen_line"},
                   plot_type : {"bar"},
                   x : {[i \in 1..n |-> minstamp + i * Step]},
                   y : {[i \in 1..n |-> <<1, 0>>]},
                   bar_width : [1..n -> BarWidths]]
    /\ CallEntry

GenLine ==
    /\ pc = "call"
    /\ call.fn = "_gen_line"
    /\ result' = _gen_line(call.x, call.y, "rain", chart_line_colors[1],
                           chart_fill_colors[1], chart_line_widths[1],
                           call.plot_type, <<"solid">>, call.bar_width, None,
                           yscale)
    /\ pc' = "called"
    /\ UNCHANGED <<envvars, locals>>

NextBar == GenLine

SpecBar == InitBar /\ [][NextBar]_vars

\* ------------------------------------------------------------------------
\* SpecDir: the direction of the hover text of one vector sample.

\* Magnitudes of 0, 0.0005, 0.001, 0.0011 and 1.
DirMagnitudes == {0, 5, Epsilon, Epsilon + 1, 10000}
DirAngles == (1 - 2 * 180)..(2 * 180)

InitDir ==
    /\ utcoffset = PlotOffset
    /\ call \in [fn : {"direction"}, r : DirMagnitudes, phi : DirAngles]
    /\ CallEntry

HoverDirection ==
    /\ pc = "call"
    /\ call.fn = "direction"
    /\ result' = [deg |-> DirectionShown(call.r, call.phi)]
    /\ pc' = "called"
    /\ UNCHANGED <<envvars, locals>>

NextDir == HoverDirection

SpecDir == InitDir /\ [][NextDir]_vars

\* ------------------------------------------------------------------------
\* SpecDayNight: _gen_daynight called on its own for the window
\* [minstamp, maxstamp].

MaxTransitions == 3

\* Day, night and edge colours: equal and different ones.
DayNightColours == {0, 255, 16711680}
DayNightPlots ==
    [daynight_day_color : DayNightColours,
     daynight_night_color : DayNightColours,
     daynight_edge_color : DayNightColours]

\* The times strictly inside the window, in ascending order.
Ascending(times) ==
    CHOOSE seq \in [1..Cardinality(times) -> times] :
        \A i, j \in DOMAIN seq : i < j => seq[i] < seq[j]

\* What getDayNightTransitions(minstamp, maxstamp, latitude, longitude)
\* answers: the sunrises and sunsets strictly inside the window in
\* ascending order, and whether the window starts by day or by night; None
\* when no transition falls in the window.
DayNightTransitions ==
    {[first |-> f, transitions |-> Ascending(times)] :
        <<f, times>> \in
            {ft \in {None, <<"day">>, <<"night">>}
                      \X SUBSET ((minstamp + 1)..(maxstamp - 1)) :
                /\ Cardinality(ft[2]) <= MaxTransitions
                /\ ft[1] = None <=> ft[2] = {}}}

InitDayNight ==
    /\ utcoffset \in {PlotOffset, -210}
    /\ call \in [fn : {"_gen_daynight"}, plot : DayNightPlots,
                 daynight : DayNightTransitions]
    /\ CallEntry

GenDayNight ==
    /\ pc = "call"
    /\ call.fn = "_gen_daynight"
    /\ result' = _gen_daynight(call.plot, minstamp, maxstamp, call.daynight)
    /\ pc' = "called"
    /\ UNCHANGED <<envvars, locals>>

NextDayNight == GenDayNight

SpecDayNight == InitDayNight /\ [][NextDayNight]_vars

\* ------------------------------------------------------------------------
\* The claims.

Returned == pc \in {"returned", "done"}

\* The lines so far whose get_series call completed.
FetchedLines ==
    {i \in DOMAIN outcome :
        outcome[i] \in {"fetched", "unknown_kind", "emitted", "failed"}}

\* The lines so far that the empty check passed: it neither skipped them
\* nor failed.
CheckedLines ==
    {i \in DOMAIN outcome : outcome[i] \notin {"empty", "check_failed"}}

\* C1 as stated: when gen_plot returns, have_data is true if and only if
\* the series fetch of some line that was not skipped completed; a line
\* abandoned before its fetch does not make it true.
C1_FlagIffFetched == Returned => (have_data <=> FetchedLines # {})

\* C1 as amended: at every point of gen_plot, and so when it returns,
\* have_data is true if and only if the empty check did not skip some line,
\* whether or not that line reached its fetch.
C1_FlagIffNotSkipped == have_data <=> CheckedLines # {}

\* A plot whose only lines past the empty check were abandoned for their
\* missing aggregate interval, and whose flag is true.
C1_Witness ==
    /\ pc = "returned"
    /\ have_data
    /\ FetchedLines = {}
    /\ \E i \in DOMAIN outcome : outcome[i] = "no_interval"
    /\ \E i \in DOMAIN outcome : outcome[i] = "empty"

\* The empty check is on and the data source reports no non-null value for
\* any line of the plot.
AllLinesEmpty ==
    /\ check_domain # None
    /\ plot_dict # <<>>
    /\ \A i \in DOMAIN plot_dict :
         db[plot_dict[i].data_type].aggregate = [exc |-> "", val |-> FALSE]

\* C2: with the empty check on and no non-null value for any line, gen_plot
\* ends with have_data false and returns None, and gen_images writes no
\* file for the plot and does not count it.
C2_EmptyPlotAbsent ==
    AllLinesEmpty =>
        /\ pc # "raised"
        /\ Returned => ~ have_data /\ plotly_data = None
        /\ pc = "done" => img_file = None /\ ngen = 0

HasRose(doc) ==
    /\ \E i \in DOMAIN doc.layout.shapes : doc.layout.shapes[i] = "shaft"
    /\ \E i \in DOMAIN doc.layout.annotations :
         doc.layout.annotations[i].kind = "rose_label"

\* C3: in the document gen_plot returns, the compass rose is present if and
\* only if the series list holds a vector series, whatever the spelling of
\* the plot type.
C3_RoseIffVector ==
    (Returned /\ plotly_data # None) =>
        (HasRose(plotly_data[1])
            <=> \E i \in DOMAIN plotly_data[1].data :
                    plotly_data[1].data[i].vector)

\* t is s without its leading and trailing blanks.
IsTrimOf(t, s) ==
    \E a, b \in 0..Len(s) :
        /\ a + Len(t) + b = Len(s)
        /\ \A k \in 1..a : s[k] = " "
        /\ \A k \in 1..b : s[Len(s) - k + 1] = " "
        /\ \A k \in 1..Len(t) : t[k] = s[a + k]
        /\ t # <<>> => t[1] # " " /\ t[Len(t)] # " "

\* The lines that reached the resolution of their unit label.
LabelledLines ==
    {i \in DOMAIN outcome : outcome[i] \in {"unknown_kind", "emitted", "failed"}}

LabelText(section) ==
    IF section.y_label = None THEN UnitLabelString ELSE section.y_label[1]

\* C4: the y-axis title of the layout is the trimmed label of the last line,
\* in declaration order, that reached label resolution; the lines after it
\* that the empty check skipped (or that were abandoned before) leave it.
C4_LastLabelWins ==
    (Returned /\ plotly_data # None) =>
        LET title == plotly_data[1].layout.yaxis.title
        IN  IF LabelledLines = {} THEN title = None
            ELSE LET last == CHOOSE i \in LabelledLines :
                                \A j \in LabelledLines : j <= i
                 IN  /\ title # None
                     /\ IsTrimOf(title[1], LabelText(plot_dict[last]))

\* Two lines resolved different labels, the second with blanks around it,
\* and the title is the second's, trimmed.
C4_Witness ==
    /\ pc = "returned"
    /\ plotly_data # None
    /\ LabelledLines = {1, 2}
    /\ plot_dict[1].y_label = None
    /\ plot_dict[2].y_label = YLabelA
    /\ plotly_data[1].layout.yaxis.title = << <<"a">> >>

\* C5: no failure of a line (the UnknownType of its fetch, a vector line
\* whose decomposition fails) leaves gen_plot: the lines after it and the
\* layout are still processed.
C5_FailuresIsolated ==
    \A i \in DOMAIN outcome :
        outcome[i] \in {"unknown_type", "failed"} => pc # "raised"

C7_UnknownKindSkipped ==
    /\ [](error # "AssertionError")
    /\ [](Returned => Len(outcome) = Len(plot_dict))
    /\ [][(pc = "shape" /\ plot_type \notin {"line", "bar", "vector"}) =>
            /\ data' = data
            /\ error' = ""
            /\ pc' = "loop"
            /\ line_num' = line_num]_vars

\* A line of an unknown plot type, a line emitted after it, and the document.
C7_Witness ==
    /\ pc = "returned"
    /\ plotly_data # None
    /\ \E i, j \in DOMAIN outcome :
         i < j /\ outcome[i] = "unknown_kind" /\ outcome[j] = "emitted"
    /\ Len(plotly_data[1].data) = 1

\* The pairs of consecutive samples of (x, y) that _add_gaps must part:
\* j stands for the pair (j - 1, j).
WidePairs(x, y, maxdx) ==
    {j \in 2..Len(x) :
        y[j - 1] # None /\ y[j] # None /\ x[j] - x[j - 1] > maxdx}

\* C8: _add_gaps puts one null-valued sample at the midpoint of each pair of
\* consecutive non-null samples more than maxdx apart, nothing anywhere
\* else, and keeps every sample given, unchanged and in order.
C8_GapsAtWidePairs ==
    pc = "called" =>
        LET x  == call.x
            y  == call.y
            G  == WidePairs(x, y, call.maxdx)
            at(i) == i + Cardinality({j \in G : j <= i})
            gx == result[1]
            gy == result[2]
        IN  /\ Len(gx) = Len(x) + Cardinality(G)
            /\ Len(gy) = Len(gx)
            /\ \A i \in DOMAIN x : gx[at(i)] = x[i] /\ gy[at(i)] = y[i]
            /\ \A j \in G : /\ gy[at(j) - 1] = None
                            /\ 2 * gx[at(j) - 1] = x[j - 1] + x[j]

\* x = [0, 1, 10, 11] seconds, y = [1, 1, 1, 1], maxdx = 2 seconds: one null
\* at 5.5 seconds between the second and the third sample.
C8_Witness ==
    /\ pc = "called"
    /\ call.x = <<0, 2, 20, 22>>
    /\ call.y = <<<<1, 0>>, <<1, 0>>, <<1, 0>>, <<1, 0>>>>
    /\ call.maxdx = 4
    /\ result = << <<0, 2, 11, 20, 22>>,
                   <<<<1, 0>>, <<1, 0>>, None, <<1, 0>>, <<1, 0>>>> >>

\* The one line of a plot of SpecLine is a line plot and has been emitted.
LineEmitted ==
    /\ outcome = <<"emitted">>
    /\ plot_type = "line"

GapOptionOutOfRange ==
    /\ plot_dict[1].line_gap_fraction # None
    /\ \/ plot_dict[1].line_gap_fraction[1] <= 0
       \/ plot_dict[1].line_gap_fraction[1] >= GapDen

\* C9: a gap fraction that is <= 0 or >= 1 is ignored: the line's series
\* holds the samples as they were, without any null, and the line raises
\* nothing; so a series with a null has a gap fraction in (0, 1).
C9_GapFractionRange ==
    /\ (LineEmitted /\ GapOptionOutOfRange) =>
          /\ data[1].x = [k \in DOMAIN stop_vec_t |->
                              _time_to_iso(stop_vec_t[k])]
          /\ data[1].y = new_data_vec_t
          /\ \A k \in DOMAIN data[1].y : data[1].y[k] # None
    /\ (LineEmitted /\ \E k \in DOMAIN data[1].y : data[1].y[k] = None) =>
          /\ plot_dict[1].line_gap_fraction # None
          /\ 0 < plot_dict[1].line_gap_fraction[1]
          /\ plot_dict[1].line_gap_fraction[1] < GapDen
    /\ (outcome = <<"failed">> /\ plot_type = "line") => ~ GapOptionOutOfRange

\* A line of two samples with a gap fraction of exactly 0, emitted.
C9_Witness ==
    /\ LineEmitted
    /\ plot_dict[1].line_gap_fraction = <<0>>
    /\ Len(data[1].y) = 2

\* The three vectors of the line after a stage.
SameLength(a, b, c) == Len(a) = Len(b) /\ Len(b) = Len(c)

OffsetDenoted(iso) ==
    IF iso.sign = "-" THEN - (iso.hh * 60 + iso.mm) ELSE iso.hh * 60 + iso.mm

\* C17: in every timezone, the +HH:MM or -HH:MM that _time_to_iso appends
\* denotes the local-minus-UTC offset: its minutes are below 60 and its
\* sign, hours and minutes together are the offset.
C17_OffsetDenoted ==
    (pc = "called" /\ call.fn = "_time_to_iso") =>
        /\ result.mm \in 0..59
        /\ OffsetDenoted(result) = utcoffset
        /\ result.local = call.time_ts + 2 * 60 * utcoffset

\* The number that two hexadecimal digits, lowercase, write.
HexValue(d) ==
    LET val(c) == CHOOSE k \in 0..15 : HexDigits[k + 1] = c
    IN  16 * val(d[1]) + val(d[2])

\* C12: for a packed colour, _bgr_to_css returns '#rrggbb' where rr writes
\* the low byte, gg the middle byte and bb the high byte, each as two
\* lowercase hexadecimal digits.
C12_LittleEndianColour ==
    (pc = "called" /\ call.fn = "_bgr_to_css") =>
        /\ Len(result) = 7
        /\ result[1] = "#"
        /\ \A k \in 2..7 : \E j \in 1..16 : result[k] = HexDigits[j]
        /\ HexValue(SubSeq(result, 2, 3)) = call.bgr % 256
        /\ HexValue(SubSeq(result, 4, 5)) = (call.bgr \div 256) % 256
        /\ HexValue(SubSeq(result, 6, 7)) = call.bgr \div 65536

\* 0x0000FF gives #ff0000.
C12_Witness ==
    /\ pc = "called"
    /\ call = [fn |-> "_bgr_to_css", bgr |-> 255]
    /\ result = <<"#", "f", "f", "0", "0", "0", "0">>

\* _gen_line was called on its own for a bar line and returned its series.
BarReturned ==
    /\ pc = "called"
    /\ call.fn = "_gen_line"
    /\ call.plot_type = "bar"
    /\ result.exc = ""
    /\ Len(result.lines) = 1

\* C11 as stated: equal widths give the common width as a scalar, other
\* widths the array of the widths unchanged.
C11_WidthAsGiven ==
    BarReturned =>
        LET w == call.bar_width
            out == result.lines[1].width
        IN  IF w # <<>> /\ \A i \in DOMAIN w : w[i] = w[1]
            THEN out.kind = "scalar" /\ out.ms = <<w[1]>>
            ELSE out.kind = "array" /\ out.ms = w

\* C11 as amended: the widths are emitted in milliseconds, 1000 times the
\* widths in seconds: equal widths (of at least one sample) give the scalar
\* 1000 * width, other widths the array of 1000 * each width in order, and
\* no sample at all gives the empty array.
C11_WidthInMilliseconds ==
    BarReturned =>
        LET w == call.bar_width
            out == result.lines[1].width
        IN  IF w # <<>> /\ \A i \in DOMAIN w : w[i] = w[1]
            THEN out.kind = "scalar" /\ out.ms = <<1000 * w[1]>>
            ELSE /\ out.kind = "array"
                 /\ Len(out.ms) = Len(w)
                 /\ \A i \in DOMAIN w : out.ms[i] = 1000 * w[i]

\* Three widths of 60 seconds: the scalar 60000 milliseconds.
C11_Witness ==
    /\ BarReturned
    /\ call.bar_width = <<120, 120, 120>>
    /\ result.lines[1].width = [kind |-> "scalar", ms |-> <<120000>>]

DirectionCalled == pc = "called" /\ call.fn = "direction"

\* (90 - phi) mod 360 in half degrees: the d in [0, 360) that differs from
\* 90 - phi by whole turns.
CompassDirection(phi) ==
    CHOOSE d \in 0..(2 * 360 - 1) :
        \E turns \in -1..1 : d = 2 * 90 - phi + turns * 2 * 360

\* C13 as stated: the direction shown is (90 - phi) mod 360, and 360 when
\* the magnitude exceeds the epsilon and that direction is in [0, 1).
C13_DirectionExact ==
    DirectionCalled =>
        LET d == CompassDirection(call.phi)
        IN  2 * result.deg = IF call.r > Epsilon /\ d < 2 THEN 2 * 360 ELSE d

\* C13 as amended: the direction shown is the whole degrees of
\* (90 - phi) mod 360, the fraction dropped and not rounded, and 360 when
\* the magnitude exceeds the epsilon and that direction is in [0, 1); for a
\* magnitude of at most the epsilon a direction in [0, 1) is shown as 0.
C13_DirectionWholeDegrees ==
    DirectionCalled =>
        LET d == CompassDirection(call.phi)
        IN  IF call.r > Epsilon /\ d < 2
            THEN result.deg = 360
            ELSE 2 * result.deg <= d /\ d < 2 * result.deg + 2

\* A wind of magnitude 1 from 0.5 degrees east of North is shown as 360.
C13_Witness ==
    /\ DirectionCalled
    /\ call.r = 10000
    /\ call.phi = 2 * 90 - 1
    /\ result.deg = 360

\* gen_plot has processed every line and is about to call _gen_plotly.
LinesDone == pc = "loop" /\ line_num + 1 = Len(plot_dict)

\* The x-axis is of type date and its range is the window: two entries,
\* the local times of minstamp and of maxstamp.
WindowAxis(xaxis) ==
    /\ xaxis.type = "date"
    /\ Len(xaxis.range) = 2
    /\ xaxis.range[1].local = minstamp + 2 * 60 * utcoffset
    /\ xaxis.range[2].local = maxstamp + 2 * 60 * utcoffset

\* C14: every layout that _gen_plotly produces, whatever the fonts and the
\* series, has an x-axis of type date with the range [minstamp, maxstamp];
\* so has every document gen_plot returns.
C14_AxisRange ==
    /\ LinesDone =>
          \A fonts \in [FontKeys -> FontFamilies] :
              LET res == _gen_plotly(data, fonts, yscale, unit_label,
                                     last_vector_options)
              IN  res.exc = "" => WindowAxis(res.doc[1].layout.xaxis)
    /\ (Returned /\ plotly_data # None) =>
          WindowAxis(plotly_data[1].layout.xaxis)

\* A document whose only series has no point.
C14_Witness ==
    /\ pc = "returned"
    /\ plotly_data # None
    /\ Len(plotly_data[1].data) = 1
    /\ plotly_data[1].data[1].x = <<>>
    /\ WindowAxis(plotly_data[1].layout.xaxis)

\* The family names configured for the layout's elements: the rose label's
\* counts when the plot has a last vector line.
ConfiguredFamilies(fonts) ==
    {fonts[k][1] :
        k \in {j \in FontKeys :
                 /\ fonts[j] # None
                 /\ j = "rose_label" => last_vector_options # None}}

\* C15: for every combination of configured and unconfigured font families
\* _gen_plotly completes (the series being such that their titles can be
\* built), and the font manifest holds exactly the configured family names.
C15_FontManifest ==
    (LinesDone /\ ~ TitlesRaise(data)) =>
        \A fonts \in [FontKeys -> FontFamilies] :
            LET res == _gen_plotly(data, fonts, yscale, unit_label,
                                   last_vector_options)
            IN  /\ res.exc = ""
                /\ {f[1] : f \in res.doc[1].fonts} = ConfiguredFamilies(fonts)

\* No font family configured.
NoFonts == [k \in FontKeys |-> None]

\* The titles among the annotations are, in order, those of the series
\* not hidden from the legend: the k-th of n carries its series' name and
\* stroke colour and lies at left + span * k / (n + 1), where left is
\* -lmargin / plot_w and span is (plot_w + lmargin + rmargin) / plot_w.
TitlesOfSeries(annotations, series) ==
    LET titles == SelectSeq(annotations, LAMBDA a : a.kind = "title")
        shown == SelectSeq(series, LAMBDA sr : sr.showlegend # <<FALSE>>)
        n == Len(shown)
    IN  /\ Len(titles) = n
        /\ \A k \in 1..n :
             /\ titles[k].text = shown[k].name
             /\ shown[k].stroke # None
             /\ titles[k].color = shown[k].stroke
             /\ titles[k].x[2] > 0
             /\ titles[k].x[1] * plot_w * (n + 1)
                  = titles[k].x[2] * ((plot_w + lmargin + rmargin) * k
                                        - lmargin * (n + 1))

\* C16: for every series list gen_plot assembles, vector series emitted
\* with line type none included, _gen_plotly completes with one title per
\* series not hidden from the legend, with the series' name and stroke
\* colour, the k-th of n at left + span * k / (n + 1).
C16_TitlePerSeries ==
    LinesDone =>
        LET res == _gen_plotly(data, NoFonts, yscale, unit_label,
                               last_vector_options)
        IN  /\ res.exc = ""
            /\ TitlesOfSeries(res.doc[1].layout.annotations, data)

\* C18: in the empty check of a line, a disabled check never skips the line
\* and does not ask the data source (whose answer, were it asked for an
\* unknown type, would be an exception); an unknown aggregation kind makes
\* the line empty: it is skipped without an error; otherwise the line is
\* skipped exactly when the data source reports no non-null value.
C18_EmptyCheck ==
    [][(pc = "loop" /\ line_num + 1 < Len(plot_dict)) =>
          LET res == db[plot_dict[line_num + 2].data_type].aggregate
          IN  CASE check_domain = None ->
                     skip' = <<FALSE>> /\ pc' = "aggregate" /\ error' = ""
                [] check_domain # None /\ res.exc = "UnknownAggregation" ->
                     /\ skip' = <<TRUE>>
                     /\ pc' = "loop"
                     /\ error' = ""
                     /\ data' = data
                [] check_domain # None /\ res.exc = "" ->
                     /\ skip'[1] <=> ~ res.val
                     /\ pc' = IF res.val THEN "aggregate" ELSE "loop"
                     /\ error' = ""
                [] OTHER -> TRUE]_vars

\* A line of a type whose 'not_null' aggregate is unknown was skipped, and
\* the plot went on to its end.
C18_Witness ==
    /\ pc = "returned"
    /\ check_domain # None
    /\ \E i \in DOMAIN outcome :
         /\ outcome[i] = "empty"
         /\ db[plot_dict[i].data_type].aggregate.exc = "UnknownAggregation"

\* The packed colour that the text '#rrggbb' writes.
CssToBgr(css) ==
    HexValue(SubSeq(css, 2, 3)) + 256 * HexValue(SubSeq(css, 4, 5))
        + 65536 * HexValue(SubSeq(css, 6, 7))

\* The declaration indexes, from 0, of the lines emitted so far, in order.
EmittedIndexes ==
    LET F[i \in 0..Len(outcome)] ==
            IF i = 0 THEN <<>>
            ELSE IF outcome[i] = "emitted" THEN Append(F[i - 1], i - 1)
            ELSE F[i - 1]
    IN  F[Len(outcome)]

\* The option if the line has it, else the theme's entry at its index.
Cycled(option, list, index) ==
    IF option # None THEN option[1] ELSE list[(index % Len(list)) + 1]

\* C19: in a plot of lines with one series each, the series of every
\* emitted line has the line's own colour, fill colour and width if
\* given, and else the theme's entry at (declaration index mod list
\* length), where the index counts every line declared before, skipped or
\* not.
C19_ThemeCycle ==
    (\A i \in DOMAIN plot_dict :
        plot_dict[i].plot_type \notin {<<"vector">>, <<"Vector">>}) =>
        /\ Len(data) = Len(EmittedIndexes)
        /\ \A k \in DOMAIN data :
             LET index == EmittedIndexes[k]
                 opt == plot_dict[index + 1]
             IN  /\ CssToBgr(data[k].stroke)
                      = Cycled(IF opt.color = None THEN None
                               ELSE <<tobgr(opt.color[1])>>,
                               chart_line_colors, index)
                 /\ CssToBgr(data[k].fill)
                      = Cycled(IF opt.fill_color = None THEN None
                               ELSE <<tobgr(opt.fill_color[1])>>,
                               chart_fill_colors, index)
                 /\ data[k].linewidth
                      = <<Cycled(to_int(opt.width), chart_line_widths, index)>>

\* Three lines without options, the second skipped as empty: the third has
\* the theme's first colour and width again, and its third fill colour.
C19_Witness ==
    /\ pc = "returned"
    /\ outcome = <<"emitted", "empty", "emitted">>
    /\ plot_dict[3] = PlainSection
    /\ data[2].stroke = <<"#", "f", "f", "0", "0", "0", "0">>
    /\ data[2].fill = <<"#", "f", "f", "0", "0", "f", "f">>
    /\ data[2].linewidth = <<1>>

\* The series are those of a vector line of samples at the times x: one
\* series not hidden from the legend if there is no sample, and else one
\* segment per sample, in order, all hidden but the last.
SegmentsOf(series, x) ==
    IF x = <<>>
    THEN Len(series) = 1 /\ series[1].showlegend # <<FALSE>>
    ELSE /\ Len(series) = Len(x)
         /\ \A k \in DOMAIN x :
              /\ series[k].vector
              /\ series[k].x[1] = _time_to_iso(x[k])
              /\ series[k].showlegend # <<FALSE>> <=> k = Len(x)

\* C20: for the vector line of a one-line plot, whatever its samples and
\* with or without a y-axis range, _gen_line returns the segments of the
\* line's non-null samples.
C20_VectorSegments ==
    (Len(outcome) = 1 /\ outcome[1] \in {"emitted", "failed"}
        /\ plot_type = "vector") =>
        /\ outcome[1] = "emitted"
        /\ SegmentsOf(data, stop_vec_t)

\* _gen_daynight has returned its shapes.
DayNightReturned == pc = "called" /\ call.fn = "_gen_daynight"

\* The shapes of one kind, in the order of the list, and the positions of
\* the list they stand at.
ShapesOfType(shapes, type) == SelectSeq(shapes, LAMBDA s : s.type = type)
PositionsOfType(shapes, type) == {i \in DOMAIN shapes : shapes[i].type = type}

\* C21: for a window with k transitions _gen_daynight returns exactly k + 1
\* rectangles; the first starts at minstamp, each next one starts where the
\* one before it ends, the last ends at maxstamp; the fills alternate
\* between the day and the night colour, starting with the colour of the
\* membership reported for the first segment; there are lines if and only
\* if the edge colour differs from both fill colours, and then one at each
\* transition and none at minstamp or maxstamp; every line stands after
\* every rectangle in the list.
C21_DayNightTiling ==
    DayNightReturned =>
        LET plot  == call.plot
            trans == call.daynight.transitions
            first == call.daynight.first
            k     == Len(trans)
            rects == ShapesOfType(result, "rect")
            lines == ShapesOfType(result, "line")
            day   == _bgr_to_css(plot.daynight_day_color)
            night == _bgr_to_css(plot.daynight_night_color)
            edged == /\ plot.daynight_edge_color # plot.daynight_day_color
                     /\ plot.daynight_edge_color # plot.daynight_night_color
        IN  /\ Len(rects) = k + 1
            /\ Len(rects) + Len(lines) = Len(result)
            /\ rects[1].x0.local = minstamp + 2 * 60 * utcoffset
            /\ rects[k + 1].x1.local = maxstamp + 2 * 60 * utcoffset
            /\ \A i \in 1..k :
                 /\ rects[i + 1].x0 = rects[i].x1
                 /\ rects[i].x1.local = trans[i] + 2 * 60 * utcoffset
                 /\ rects[i + 1].fillcolor =
                        IF rects[i].fillcolor = day THEN night ELSE day
            /\ first = <<"day">> => rects[1].fillcolor = day
            /\ first = <<"night">> => rects[1].fillcolor = night
            /\ rects[1].fillcolor \in {day, night}
            /\ lines # <<>> <=> (edged /\ k > 0)
            /\ edged =>
                 /\ Len(lines) = k
                 /\ \A i \in 1..k :
                      /\ lines[i].x0.local = trans[i] + 2 * 60 * utcoffset
                      /\ lines[i].x1 = lines[i].x0
                      /\ lines[i].linecolor = _bgr_to_css(plot.daynight_edge_color)
            /\ \A i \in PositionsOfType(result, "rect"),
                  j \in PositionsOfType(result, "line") : i < j

\* Two transitions and an edge colour of its own: three rectangles, then
\* two lines.
C21_Witness ==
    /\ DayNightReturned
    /\ Len(call.daynight.transitions) = 2
    /\ call.daynight.first = <<"night">>
    /\ call.plot.daynight_edge_color \notin
           {call.plot.daynight_day_color, call.plot.daynight_night_color}
    /\ call.plot.daynight_day_color # call.plot.daynight_night_color
    /\ Len(result) = 5

\* The vector-kind lines emitted so far, by their place in the declaration
\* order (the line with index i - 1 stands at place i): the plot type,
\* lowercased as gen_plot lowercases it, is 'vector'.
EmittedVectors ==
    {i \in DOMAIN outcome :
        /\ outcome[i] = "emitted"
        /\ plot_dict[i].plot_type # None
        /\ Lower(plot_dict[i].plot_type[1]) = "vector"}

\* The last element of a non-empty set of places.
LastOf(places) == CHOOSE i \in places : \A j \in places : j <= i

\* C22: after any sequence of lines, no vector line is recorded if no
\* vector-kind line was emitted; otherwise the recorded line is the last
\* emitted vector-kind line in declaration order, with its index, and the
\* rose colour is the theme's rose colour if configured, else that line's
\* own colour, else the theme's line colour at that line's index modulo the
\* length of the list.
C22_LastVectorLine ==
    IF EmittedVectors = {}
    THEN last_vector_options = None
    ELSE LET last == LastOf(EmittedVectors)
         IN  /\ last_vector_options = <<plot_dict[last]>>
             /\ last_vector_line_num = last - 1
             /\ \A rose_color \in RoseColours :
                  RoseColor(rose_color, last_vector_options,
                            last_vector_line_num) =
                      IF rose_color # None THEN rose_color[1]
                      ELSE IF plot_dict[last].color # None
                      THEN tobgr(plot_dict[last].color[1])
                      ELSE chart_line_colors[
                               ((last - 1) % Len(chart_line_colors)) + 1]

\* The places in the series list where the series of one line end: a series
\* that is not hidden from the legend is a line's only or last series.
BlockEnds(series) == {k \in DOMAIN series : series[k].showlegend = None}

\* The number, from 1, of the block that the series at place k stands in.
BlockOf(series, k) == Cardinality({e \in BlockEnds(series) : e < k}) + 1

\* The series is one of the line declared with these options at this
\* index: it has the line's name and kind and, if it has a stroke, the
\* colour that the line has at this index.
SeriesOfLine(s, opt, index) ==
    LET kind == IF opt.plot_type = None THEN "line"
                ELSE Lower(opt.plot_type[1])
    IN  /\ s.name = opt.data_type
        /\ s.vector <=> kind = "vector"
        /\ s.type = "bar" <=> kind = "bar"
        /\ s.stroke # None =>
             CssToBgr(s.stroke)
                = Cycled(IF opt.color = None THEN None
                         ELSE <<tobgr(opt.color[1])>>,
                         chart_line_colors, index)

\* C23: the series list is, at every moment, the blocks of the emitted
\* lines in declaration order: there are as many blocks as emitted lines,
\* the j-th block holds only series of the j-th emitted line, only a vector
\* line has more than one series and they stand together, and a skipped
\* line has no series.  So the plot with two lines swapped has their blocks
\* swapped.
C23_DeclarationOrder ==
    /\ Cardinality(BlockEnds(data)) = Len(EmittedIndexes)
    /\ data # <<>> => Len(data) \in BlockEnds(data)
    /\ \A k \in DOMAIN data :
         LET index == EmittedIndexes[BlockOf(data, k)]
         IN  /\ SeriesOfLine(data[k], plot_dict[index + 1], index)
             /\ k \notin BlockEnds(data) => data[k].vector

\* A vector line with several segments, then a bar line, both emitted.
C23_Witness ==
    /\ Returned
    /\ Len(plot_dict) = 2
    /\ plot_dict[1].plot_type = <<"vector">>
    /\ plot_dict[2].plot_type = <<"bar">>
    /\ outcome = <<"emitted", "emitted">>
    /\ Len(data) > 2
    /\ data[Len(data)].type = "bar"

====
